---- MODULE Spec2Model ----
(***************************************************************************)
(* VP-Autoplayer: the Player thread of autoplayer_core.py (Player.run and  *)
(* the two gates Player.toggle / Player.stop) and the controller side of   *)
(* gui.py (App) that starts, toggles and stops Players and drains the      *)
(* shared queue.                                                           *)
(*                                                                         *)
(* One step of a Player is one access to state shared with other threads   *)
(* (an Event, CFG, the queue, the keyboard, the foreground window); the    *)
(* thread-local computation and the time.sleep calls between two accesses  *)
(* belong to the step that follows them.                                   *)
(*                                                                         *)
(* Specifications: Spec, FairSpec (one Player and its controller), SpecApp *)
(* (the App's handlers), TimedSpec (tempo edits during a run), RunSpec (a  *)
(* run at every humanness), TokSpec (Player._tokenise on bounded texts),   *)
(* SlotSpec (the sleeps of one Single token) and PollSpec (the play/pause  *)
(* button and the poll timer, with fairness).                              *)
(***************************************************************************)
EXTENDS Integers, Sequences, FiniteSets, TLC

\* ------------------------------------------------------------------ bounds
\* Number of Player objects the App may construct in one behaviour.
MaxPlayers == 2

\* Cap of the history counter polls.
MaxPolls == 2

Players == 1..MaxPlayers

\* ---------------------------------------------------------- static tables
SHIFT_MAP ==
  [c \in {"!", "@", "#", "$", "%", "^", "&", "*", "(", ")", "_", "+",
          "{", "}", ":", "\"", "<", ">", "?"} |->
     CASE c = "!" -> "1" [] c = "@" -> "2" [] c = "#" -> "3" [] c = "$" -> "4"
       [] c = "%" -> "5" [] c = "^" -> "6" [] c = "&" -> "7" [] c = "*" -> "8"
       [] c = "(" -> "9" [] c = ")" -> "0" [] c = "_" -> "-" [] c = "+" -> "="
       [] c = "{" -> "[" [] c = "}" -> "]" [] c = ":" -> ";" [] c = "\"" -> "'"
       [] c = "<" -> "," [] c = ">" -> "." [] c = "?" -> "/"]

SHIFT_REV ==
  [v \in {SHIFT_MAP[k] : k \in DOMAIN SHIFT_MAP} |->
     CHOOSE k \in DOMAIN SHIFT_MAP : SHIFT_MAP[k] = v]

NEIGHBOURS ==
  [c \in {"a", "s", "d", "f", "g", "h", "j", "k", "l",
          "q", "w", "e", "r", "t", "y", "u", "i", "o", "p"} |->
     CASE c = "a" -> {"s", "q", "w", "z"}
       [] c = "s" -> {"a", "d", "w", "e", "x", "z"}
       [] c = "d" -> {"s", "f", "e", "r", "c", "x"}
       [] c = "f" -> {"d", "g", "r", "t", "v", "c"}
       [] c = "g" -> {"f", "h", "t", "y", "b", "v"}
       [] c = "h" -> {"g", "j", "y", "u", "n", "b"}
       [] c = "j" -> {"h", "k", "u", "i", "m", "n"}
       [] c = "k" -> {"j", "l", "i", "o", ",", "m"}
       [] c = "l" -> {"k", "o", "p", "."}
       [] c = "q" -> {"w", "a"}
       [] c = "w" -> {"q", "e", "s", "a"}
       [] c = "e" -> {"w", "r", "d", "s"}
       [] c = "r" -> {"e", "t", "f", "d"}
       [] c = "t" -> {"r", "y", "g", "f"}
       [] c = "y" -> {"t", "u", "h", "g"}
       [] c = "u" -> {"y", "i", "j", "h"}
       [] c = "i" -> {"u", "o", "k", "j"}
       [] c = "o" -> {"i", "p", "l", "k"}
       [] c = "p" -> {"o", "l"}]

\* str.isupper / str.lower on the one-character strings the sheets use.
UpperToLower ==
  [c \in {"A", "B", "C", "P", "Q"} |->
     CASE c = "A" -> "a" [] c = "B" -> "b" [] c = "C" -> "c"
       [] c = "P" -> "p" [] c = "Q" -> "q"]

IsUpper(ch) == ch \in DOMAIN UpperToLower

Lower(ch) == IF IsUpper(ch) THEN UpperToLower[ch] ELSE ch

\* ------------------------------------------------------------------ tokens
\* A token of Player._tokenise: a str (list = FALSE, one key) or a list of
\* str (a chord, list = TRUE).
Single(ch) == [list |-> FALSE, keys |-> <<ch>>]

Chord(ks) == [list |-> TRUE, keys |-> ks]

IsRest(tok) == ~tok.list /\ tok.keys[1] = "|"

\* Player._needs_shift
NeedsShiftCh(ch) == ch \in DOMAIN SHIFT_MAP \/ IsUpper(ch)

NeedsShiftOfFirstKey(tok) == NeedsShiftCh(tok.keys[1])

NeedsShift(tok) == \E j \in 1..Len(tok.keys) : NeedsShiftCh(tok.keys[j])

\* Player._neighbour: the values random.choice can return.
Neighbour(ch) ==
  IF Lower(ch) \in DOMAIN NEIGHBOURS THEN NEIGHBOURS[Lower(ch)]
  ELSE DOMAIN NEIGHBOURS

\* The token sequences of the sheet files in CFG.folder (what _tokenise
\* yields for "a [bc] | A", "[Pq] 1", "p" and "[bC] p").
SheetToks ==
  << <<Single("a"), Chord(<<"b", "c">>), Single("|"), Single("A")>>,
     <<Chord(<<"P", "q">>), Single("1")>>,
     <<Single("p")>>,
     <<Chord(<<"b", "C">>), Single("p")>> >>

Sheets == 1..Len(SheetToks)

\* ------------------------------------------------- humanisation parameters
\* CFG.human is kept in percent (the code only ever uses CFG.human * 100);
\* density in tenths.  Strength is in 1/1000, the three probabilities in
\* 1/PScale.
PScale == 100 * 15625 * 100

Humans == {0, 75, 100}

Densities == {0, 5, 10}

\* Values of random.random(), in 1/PScale: 0.0, 0.2 and the largest below 1.
Draws == {0, PScale \div 5, PScale - 1}

\* Player._human_strength
HumanStrength(h) ==
  IF h = 0 THEN 0
  ELSE IF h <= 50 THEN 6 * h
  ELSE IF h <= 75 THEN 300 + 12 * (h - 50)
  ELSE 600 + 16 * (h - 75)

Max0Unclamped(x) == x

\* max(0.0, x)
Max0(x) == IF x > 0 THEN x ELSE 0

\* Player._params: sigma, span, drift and hold_jit in 1e-8, the three
\* probabilities in 1/PScale.
Params(h, dens) ==
  LET s      == HumanStrength(h)
      hi     == Max0(h - 75)
      factor == 30 + 7 * dens
  IN  IF s = 0
      THEN [sigma |-> 0, span |-> 0, drift |-> 0, hold_jit |-> 0,
            p_drop |-> 0, p_slip |-> 0, p_shift |-> 0]
      ELSE [sigma    |-> 12 * s * s,
            span     |-> 8 * s * s,
            drift    |-> 20 * s * s,
            hold_jit |-> 120 * s * s,
            p_drop   |-> 40 * 25 * hi * hi * factor,
            p_slip   |-> 10 * hi * hi * hi * factor,
            p_shift  |-> 25 * 25 * hi * hi * factor]

\* ------------------------------------------------------------------ timing
\* CFG.bpm is an int and CFG.subdiv is kept in tenths; durations are in
\* microseconds.  SecScale is 60 s in microseconds times the ten of subdiv.
SecScale == 60 * 1000 * 1000 * 10

\* a / b for a >= 0 and b # 0 (exact for the values the model divides).
Quot(a, b) == IF b > 0 THEN a \div b ELSE -(a \div (-b))

\* Config.sec_per_tok on the configuration c; Python raises
\* ZeroDivisionError when the divisor is 0.
SecPerTokRaises(c) == c.bpm * c.subdiv = 0

SecPerTok(c) == Quot(SecScale, c.bpm * c.subdiv)

\* Config: the defaults of bpm and subdiv
DefaultBpm == 120

DefaultSubdiv == 40

\* ------------------------------------------------------------------- state
VARIABLES
  pc,          \* Player: position in Player.run ("new" before construction)
  sheet,       \* Player.sheet
  resume_evt,  \* Player.resume_evt
  stop_evt,    \* Player.stop_evt
  idx,         \* run: idx of the for loop
  tok,         \* run: tok, after the substitutions
  i,           \* run: position in the chord's press / release loop
  loc,         \* run: robot, slipped and the CFG.sec_per_tok() of the token
  last_shift,  \* Player._last_shift_needed
  q,           \* App.queue (Player.q): events not yet taken
  cfg,         \* CFG: human, auto_pause, target_title, sheet, bpm, subdiv
  fg,          \* title of the foreground window
  player,      \* App.player (0 = None)
  total_tokens,\* App.total_tokens
  tok_done,    \* App._tok_done
  var_sheet,   \* App.var_sheet
  var_human,   \* App.var_human: <<n>> for the text of an int, <<>> otherwise
  var_auto,    \* App.var_auto
  var_win,     \* App.var_win
  polling,     \* App._poll is draining the queue
  klog,        \* history: press / release calls of the current token
  obs,         \* history: what the gate of the current token observed
  exit_by,     \* history: why the for loop was left
  stop_at,     \* history: idx and position of run when stop was first called
  down,        \* history: per key, press calls minus release calls of the run
  polls,       \* history: gate sleeps begun after stop was called
  ntoggle,     \* history: parity of the toggle calls
  calls,       \* history: press / sleep / release calls of "play token"
  raw,         \* _tokenise: the text it is called on
  out,         \* _tokenise: the tokens it yielded
  slot         \* run: the draws and the sleeps of one Single token

engineVars == <<pc, sheet, resume_evt, stop_evt, idx, tok, i, last_shift, loc>>
appVars    == <<player, total_tokens, tok_done, var_sheet, var_human, var_auto,
               var_win, polling>>
histVars   == <<klog, obs, exit_by, stop_at, down, polls, ntoggle, calls>>
pureVars   == <<raw, out, slot>>
vars       == <<engineVars, q, cfg, fg, appVars, histVars, pureVars>>

None == ""

Windows == {"Roblox", "Notepad"}

NoTok == Single("")

\* The locals of run before the first token; shifted is history: tok after
\* lines 245-247.
NoLoc == [robot |-> FALSE, spt |-> 0, slipped |-> FALSE, shifted |-> NoTok]

\* No call of _tokenise yet, no Single token timed yet.
NotCalled == [called |-> FALSE, toks |-> <<>>]

NoSlot == [done |-> FALSE, human |-> 0, hold |-> 0, spt |-> 0, sin |-> 0,
           gauss |-> 0, uniform |-> 0, sec |-> 0, sleeps |-> <<>>]

PureIdle == raw = <<>> /\ out = NotCalled /\ slot = NoSlot

NoObs == [resume |-> FALSE, focus |-> FALSE, waited |-> FALSE]

NoStop == [idx |-> 0, pc |-> "none"]

NoKeys == [k \in {} |-> 0]

\* The count function f with d added at key k, zero entries dropped.
Bump(f, k, d) ==
  LET g == IF k \in DOMAIN f THEN [f EXCEPT ![k] = @ + d] ELSE f @@ (k :> d)
  IN  [x \in {y \in DOMAIN g : g[y] # 0} |-> g[x]]

Ev(tag, val, p) == [tag |-> tag, val |-> val, src |-> p]

Toks(p) == SheetToks[sheet[p]]

\* ------------------------------------------------------ Player: the gates
toggleOnlyClears(p) ==
  /\ resume_evt' = [resume_evt EXCEPT ![p] = FALSE]
  /\ ntoggle' = [ntoggle EXCEPT ![p] = ~ntoggle[p]]

\* Player.toggle
toggle(p) ==
  /\ resume_evt' = [resume_evt EXCEPT ![p] = IF resume_evt[p] THEN FALSE ELSE TRUE]
  /\ ntoggle' = [ntoggle EXCEPT ![p] = ~ntoggle[p]]

\* The positions of run at which the current token is past the check of
\* line 266 and has not yet reported its progress.
PastGate == {"press", "release", "progress"}

\* Player.stop
stop(p) ==
  /\ stop_evt' = [stop_evt EXCEPT ![p] = TRUE]
  /\ stop_at' = [stop_at EXCEPT ![p] =
                   IF stop_evt[p] THEN stop_at[p]
                   ELSE [idx |-> idx[p], pc |-> pc[p]]]

\* ---------------------------------------------------------- Player.run
TotalOneShort(p) == Len(Toks(p)) - 1

\* line 229: total = len(toks)
Total(p) == Len(Toks(p))

AfterErrorNoReturn == "for"

\* line 227: run returns after the error event
AfterError == "dead"

PutProgressUnlessDropped(p) ==
  IF pc[p] = "decide" THEN q ELSE Append(q, Ev("progress", idx[p], p))

\* lines 252, 305: self.q.put(("progress", idx))
PutProgress(p) == Append(q, Ev("progress", idx[p], p))

\* line 311: self.q.put(("done", 1))
PutDone(p) == Append(q, Ev("done", 1, p))

\* lines 224-231: read the sheet, tokenise, put total (or error and return)
Read(p) ==
  /\ pc[p] = "read"
  /\ \E ok \in BOOLEAN :
       IF ok
       THEN /\ q' = Append(q, Ev("total", Total(p), p))
            /\ pc' = [pc EXCEPT ![p] = "for"]
            /\ exit_by' = exit_by
       ELSE /\ q' = Append(q, Ev("error", 0, p))
            /\ pc' = [pc EXCEPT ![p] = AfterError]
            /\ exit_by' = [exit_by EXCEPT ![p] = "error"]
  /\ UNCHANGED <<sheet, resume_evt, stop_evt, idx, tok, i, last_shift, cfg, fg,
                 appVars, klog, obs, stop_at, down, polls, ntoggle,
                 loc, calls, pureVars>>

\* lines 233-234: the next (idx, tok) of enumerate, then the stop check
ForNext(p) ==
  /\ pc[p] = "for"
  /\ IF idx[p] = Len(Toks(p))
     THEN /\ pc' = [pc EXCEPT ![p] = "emit_done"]
          /\ exit_by' = [exit_by EXCEPT ![p] = "exhausted"]
          /\ UNCHANGED <<idx, tok>>
     ELSE /\ idx' = [idx EXCEPT ![p] = idx[p] + 1]
          /\ tok' = [tok EXCEPT ![p] = Toks(p)[idx[p] + 1]]
          /\ IF stop_evt[p]
             THEN /\ pc' = [pc EXCEPT ![p] = "emit_done"]
                  /\ exit_by' = [exit_by EXCEPT ![p] = "stop_top"]
             ELSE /\ pc' = [pc EXCEPT ![p] = "decide"]
                  /\ exit_by' = exit_by
  /\ UNCHANGED <<sheet, resume_evt, stop_evt, i, last_shift, q, cfg, fg,
                 appVars, klog, obs, stop_at, down, polls, ntoggle,
                 loc, calls, pureVars>>

ShiftSlipWithoutStickyShift(p, t, par, r) ==
  IF ~t.list /\ t.keys[1] \in DOMAIN SHIFT_REV /\ r < par.p_shift
  THEN Single(SHIFT_REV[t.keys[1]])
  ELSE t

\* lines 245-247: the sticky-Shift slip of tok, given the draw r
ShiftSlip(p, t, par, r) ==
  IF last_shift[p] /\ ~t.list /\ t.keys[1] \in DOMAIN SHIFT_REV /\ r < par.p_shift
  THEN Single(SHIFT_REV[t.keys[1]])
  ELSE t

\* line 251: the drop test, given the draw r
Dropped(par, r) == par.p_drop # 0 /\ r < par.p_drop

\* line 253: the mis-strike test, given the draw r
Slipped(t, par, r) == par.p_slip # 0 /\ ~t.list /\ r < par.p_slip

\* lines 253-254: the tokens tok can become, given the draw r
Slip(t, par, r) ==
  IF Slipped(t, par, r)
  THEN {Single(n) : n \in Neighbour(t.keys[1])}
  ELSE {t}

SecPerTokOfEarlierToken(p) ==
  IF loc[p].spt # 0 THEN loc[p].spt ELSE SecPerTok(cfg)

\* line 256: CFG.sec_per_tok(), read from the live CFG
SecPerTokNow(p) == SecPerTok(cfg)

\* lines 236-258: density, parameters, shift slip, drop (progress, continue)
\* or mis-strike, then sec from CFG.sec_per_tok() (an uncaught
\* ZeroDivisionError ends the thread) and onset_off.
Decide(p) ==
  /\ pc[p] = "decide"
  /\ \E dens \in Densities, r1 \in Draws, r2 \in Draws, r3 \in Draws :
       LET par == Params(cfg.human, dens)
           t1  == ShiftSlip(p, tok[p], par, r1)
           l1  == [robot |-> par.sigma = 0, spt |-> 0, slipped |-> FALSE,
                   shifted |-> t1]
       IN  IF Dropped(par, r2)
           THEN /\ q' = PutProgress(p)
                /\ last_shift' = [last_shift EXCEPT ![p] = FALSE]
                /\ tok' = [tok EXCEPT ![p] = t1]
                /\ loc' = [loc EXCEPT ![p] = l1]
                /\ pc' = [pc EXCEPT ![p] = "for"]
                /\ exit_by' = exit_by
           ELSE /\ \E t2 \in Slip(t1, par, r3) : tok' = [tok EXCEPT ![p] = t2]
                /\ IF SecPerTokRaises(cfg)
                   THEN /\ loc' = [loc EXCEPT ![p] =
                                     [l1 EXCEPT !.slipped = Slipped(t1, par, r3)]]
                        /\ pc' = [pc EXCEPT ![p] = "dead"]
                        /\ exit_by' = [exit_by EXCEPT ![p] = "ZeroDivisionError"]
                   ELSE /\ loc' = [loc EXCEPT ![p] =
                                     [l1 EXCEPT !.slipped = Slipped(t1, par, r3),
                                                !.spt = SecPerTokNow(p)]]
                        /\ pc' = [pc EXCEPT ![p] = "gate"]
                        /\ exit_by' = exit_by
                /\ UNCHANGED <<q, last_shift>>
  /\ klog' = [klog EXCEPT ![p] = <<>>]
  /\ calls' = [calls EXCEPT ![p] = <<>>]
  /\ obs' = [obs EXCEPT ![p] = NoObs]
  /\ UNCHANGED <<sheet, resume_evt, stop_evt, idx, i, cfg, fg, appVars,
                 stop_at, down, polls, ntoggle, pureVars>>

\* line 261: the first operand of the while condition
ResumeSet(p) == resume_evt[p]

Gate(p) ==
  /\ pc[p] = "gate"
  /\ pc' = [pc EXCEPT ![p] = IF ResumeSet(p) THEN "gate_focus" ELSE "gate_stop"]
  /\ obs' = [obs EXCEPT ![p].resume = resume_evt[p]]
  /\ UNCHANGED <<sheet, resume_evt, stop_evt, idx, tok, i, last_shift, q, cfg,
                 fg, appVars, klog, exit_by, stop_at, down, polls, ntoggle,
                 loc, calls, pureVars>>

FocusNeverLost == FALSE

\* lines 262-263: the second operand of the while condition
FocusLost ==
  cfg.auto_pause /\ cfg.target_title # None /\ fg # cfg.target_title

GateFocus(p) ==
  /\ pc[p] = "gate_focus"
  /\ pc' = [pc EXCEPT ![p] = IF FocusLost THEN "gate_stop" ELSE "gate_exit"]
  /\ obs' = [obs EXCEPT ![p].focus =
                 ~cfg.auto_pause \/ cfg.target_title = None \/ fg = cfg.target_title]
  /\ UNCHANGED <<sheet, resume_evt, stop_evt, idx, tok, i, last_shift, q, cfg,
                 fg, appVars, klog, exit_by, stop_at, down, polls, ntoggle,
                 loc, calls, pureVars>>

StopNotCheckedInGate(p) == FALSE

\* line 264: the stop check inside the gate loop
StopSeenInGate(p) == stop_evt[p]

GateStop(p) ==
  /\ pc[p] = "gate_stop"
  /\ pc' = [pc EXCEPT ![p] = IF StopSeenInGate(p) THEN "gate_exit" ELSE "gate_sleep"]
  /\ UNCHANGED <<sheet, resume_evt, stop_evt, idx, tok, i, last_shift, q, cfg,
                 fg, appVars, histVars,
                 loc, pureVars>>

\* line 265: time.sleep(0.05), then back to the while condition
GateSleep(p) ==
  /\ pc[p] = "gate_sleep"
  /\ pc' = [pc EXCEPT ![p] = "gate"]
  /\ polls' = [polls EXCEPT ![p] =
                 IF stop_evt[p] /\ polls[p] < MaxPolls THEN polls[p] + 1 ELSE polls[p]]
  /\ obs' = [obs EXCEPT ![p].waited = TRUE]
  /\ UNCHANGED <<sheet, resume_evt, stop_evt, idx, tok, i, last_shift, q, cfg,
                 fg, appVars, klog, exit_by, stop_at, down, ntoggle,
                 loc, calls, pureVars>>

StopNotCheckedAfterGate(p) == FALSE

\* line 266: the stop check after the gate loop
StopSeenAfterGate(p) == stop_evt[p]

\* lines 266-272: break on stop; otherwise sleep the onset offset and choose
\* the branch of "play token".  A rest only sleeps: time.sleep(sec), which
\* raises ValueError (uncaught) for a negative sec.
GateExit(p) ==
  /\ pc[p] = "gate_exit"
  /\ IF StopSeenAfterGate(p)
     THEN /\ pc' = [pc EXCEPT ![p] = "emit_done"]
          /\ exit_by' = [exit_by EXCEPT ![p] = "stop_gate"]
          /\ UNCHANGED <<i, calls>>
     ELSE IF IsRest(tok[p])
     THEN /\ calls' = [calls EXCEPT ![p] = <<"sleep">>]
          /\ i' = [i EXCEPT ![p] = 1]
          /\ IF loc[p].spt < 0
             THEN /\ pc' = [pc EXCEPT ![p] = "dead"]
                  /\ exit_by' = [exit_by EXCEPT ![p] = "ValueError"]
             ELSE /\ pc' = [pc EXCEPT ![p] = "progress"]
                  /\ exit_by' = exit_by
     ELSE /\ pc' = [pc EXCEPT ![p] = "press"]
          /\ i' = [i EXCEPT ![p] = 1]
          /\ UNCHANGED <<exit_by, calls>>
  /\ UNCHANGED <<sheet, resume_evt, stop_evt, idx, tok, last_shift, q, cfg, fg,
                 appVars, klog, obs, stop_at, down, polls, ntoggle,
                 loc, pureVars>>

SpanSleepAlsoInRobotMode(p) ==
  IF tok[p].list /\ i[p] < Len(tok[p].keys) THEN <<"sleep">> ELSE <<>>

\* lines 285-286: the sleep after press(n) of a chord that is not played in
\* robot mode, for every member but the last
SpanSleep(p) ==
  IF tok[p].list /\ ~loc[p].robot /\ i[p] < Len(tok[p].keys)
  THEN <<"sleep">> ELSE <<>>

KeyCall(op, ch, p) == [op |-> op, key |-> ch, stopped |-> stop_evt[p]]

\* lines 276, 283-286, 294: press(n) for the next member of tok
Press(p) ==
  /\ pc[p] = "press"
  /\ klog' = [klog EXCEPT ![p] = Append(@, KeyCall("press", tok[p].keys[i[p]], p))]
  /\ down' = [down EXCEPT ![p] = Bump(@, tok[p].keys[i[p]], 1)]
  /\ calls' = [calls EXCEPT ![p] = @ \o <<"press">> \o SpanSleep(p)]
  /\ IF i[p] = Len(tok[p].keys)
     THEN /\ pc' = [pc EXCEPT ![p] = "release"]
          /\ i' = i
     ELSE /\ pc' = pc
          /\ i' = [i EXCEPT ![p] = i[p] + 1]
  /\ UNCHANGED <<sheet, resume_evt, stop_evt, idx, tok, last_shift, q, cfg, fg,
                 appVars, obs, exit_by, stop_at, polls, ntoggle,
                 loc, pureVars>>

ReleaseKeyInPressOrder(t, j) == t.keys[Len(t.keys) - j + 1]

\* lines 279, 290, 300: the member of tok the next release call is for, when
\* j members are still down
ReleaseKey(t, j) == t.keys[j]

\* lines 277-280, 287-291, 295-301: sleep the hold, release(n) in reversed
\* order, sleep the remainder
Release(p) ==
  /\ pc[p] = "release"
  /\ klog' = [klog EXCEPT ![p] = Append(@, KeyCall("release", ReleaseKey(tok[p], i[p]), p))]
  /\ down' = [down EXCEPT ![p] = Bump(@, ReleaseKey(tok[p], i[p]), -1)]
  /\ calls' = [calls EXCEPT ![p] =
                 @ \o (IF i[p] = Len(tok[p].keys) THEN <<"sleep">> ELSE <<>>)
                   \o <<"release">>
                   \o (IF i[p] = 1 THEN <<"sleep">> ELSE <<>>)]
  /\ IF i[p] = 1
     THEN /\ pc' = [pc EXCEPT ![p] = "progress"]
          /\ i' = i
     ELSE /\ pc' = pc
          /\ i' = [i EXCEPT ![p] = i[p] - 1]
  /\ UNCHANGED <<sheet, resume_evt, stop_evt, idx, tok, last_shift, q, cfg, fg,
                 appVars, obs, exit_by, stop_at, polls, ntoggle,
                 loc, pureVars>>

\* lines 303-309: put progress, remember the Shift need of the played token
Progress(p) ==
  /\ pc[p] = "progress"
  /\ q' = PutProgress(p)
  /\ last_shift' = [last_shift EXCEPT ![p] = NeedsShift(tok[p])]
  /\ pc' = [pc EXCEPT ![p] = "for"]
  /\ UNCHANGED <<sheet, resume_evt, stop_evt, idx, tok, i, cfg, fg, appVars,
                 histVars,
                 loc, pureVars>>

\* line 311: put done; run returns
EmitDone(p) ==
  /\ pc[p] = "emit_done"
  /\ q' = PutDone(p)
  /\ pc' = [pc EXCEPT ![p] = "dead"]
  /\ UNCHANGED <<sheet, resume_evt, stop_evt, idx, tok, i, last_shift, cfg, fg,
                 appVars, histVars,
                 loc, pureVars>>

Run(p) ==
  \/ Read(p)
  \/ ForNext(p)
  \/ Decide(p)
  \/ Gate(p)
  \/ GateFocus(p)
  \/ GateStop(p)
  \/ GateSleep(p)
  \/ GateExit(p)
  \/ Press(p)
  \/ Release(p)
  \/ Progress(p)
  \/ EmitDone(p)

\* -------------------------------------------------------------- the App
Clamp100(v) == IF v < 0 THEN 0 ELSE IF v > 100 THEN 100 ELSE v

\* App._expressiveness_changed, run by the trace of var_human when the entry
\* or the slider writes txt; var_human.get() raises on a text that is no int.
ExpressivenessChanged(txt) ==
  /\ ~polling
  /\ txt # var_human
  /\ IF txt = <<>>
     THEN /\ var_human' = txt
          /\ cfg' = cfg
     ELSE /\ cfg' = [cfg EXCEPT !.human = Clamp100(txt[1])]
          /\ var_human' = <<Clamp100(txt[1])>>
  /\ UNCHANGED <<engineVars, q, fg, player, total_tokens, tok_done, var_sheet,
                 var_auto, var_win, polling, histVars, pureVars>>

\* App._toggle_auto, after the checkbutton has flipped var_auto
ToggleAuto ==
  /\ ~polling
  /\ IF ~var_auto /\ var_win = ""
     THEN UNCHANGED <<var_auto, cfg>>
     ELSE /\ var_auto' = ~var_auto
          /\ cfg' = [cfg EXCEPT !.auto_pause = ~var_auto]
  /\ UNCHANGED <<engineVars, q, fg, player, total_tokens, tok_done, var_sheet,
                 var_human, var_win, polling, histVars, pureVars>>

\* Another window takes the input focus.
Focus(w) ==
  /\ fg # w
  /\ fg' = w
  /\ UNCHANGED <<engineVars, q, cfg, appVars, histVars, pureVars>>

\* ------------------------------------------- the controller of one Player
\* A call of Player.toggle on a constructed Player.
Toggle(p) ==
  /\ pc[p] # "new"
  /\ toggle(p)
  /\ UNCHANGED <<pc, sheet, stop_evt, idx, tok, i, last_shift, q, cfg, fg,
                 appVars, klog, obs, exit_by, stop_at, down, polls,
                 loc, calls, pureVars>>

\* A call of Player.stop on a constructed Player.
Stop(p) ==
  /\ pc[p] # "new"
  /\ ~stop_evt[p]
  /\ stop(p)
  /\ UNCHANGED <<pc, sheet, resume_evt, idx, tok, i, last_shift, q, cfg, fg,
                 appVars, klog, obs, exit_by, down, polls, ntoggle,
                 loc, calls, pureVars>>

\* Player.__init__ for every Player, none started.
NoPlayers ==
  /\ pc = [p \in Players |-> "new"]
  /\ sheet = [p \in Players |-> 1]
  /\ resume_evt = [p \in Players |-> TRUE]
  /\ stop_evt = [p \in Players |-> FALSE]
  /\ idx = [p \in Players |-> 0]
  /\ tok = [p \in Players |-> NoTok]
  /\ i = [p \in Players |-> 1]
  /\ last_shift = [p \in Players |-> FALSE]
  /\ loc = [p \in Players |-> NoLoc]
  /\ calls = [p \in Players |-> <<>>]
  /\ klog = [p \in Players |-> <<>>]
  /\ obs = [p \in Players |-> NoObs]
  /\ exit_by = [p \in Players |-> "none"]
  /\ stop_at = [p \in Players |-> NoStop]
  /\ down = [p \in Players |-> NoKeys]
  /\ polls = [p \in Players |-> 0]
  /\ ntoggle = [p \in Players |-> FALSE]

\* One Player constructed on a sheet and started (App._start_player), with
\* a configuration that App._apply_cfg accepted.
Init ==
  /\ \E s \in Sheets :
       /\ sheet = [p \in Players |-> IF p = 1 THEN s ELSE 1]
       /\ var_sheet = s
       /\ \E h \in Humans, a \in BOOLEAN, t \in {None, "Roblox"} :
            /\ a => t # None
            /\ cfg = [human |-> h, auto_pause |-> a, target_title |-> t, sheet |-> s,
                   bpm |-> DefaultBpm, subdiv |-> DefaultSubdiv]
            /\ var_human = <<h>>
            /\ var_auto = a
            /\ var_win = t
  /\ pc = [p \in Players |-> IF p = 1 THEN "read" ELSE "new"]
  /\ resume_evt = [p \in Players |-> TRUE]
  /\ stop_evt = [p \in Players |-> FALSE]
  /\ idx = [p \in Players |-> 0]
  /\ tok = [p \in Players |-> NoTok]
  /\ i = [p \in Players |-> 1]
  /\ last_shift = [p \in Players |-> FALSE]
  /\ loc = [p \in Players |-> NoLoc]
  /\ calls = [p \in Players |-> <<>>]
  /\ PureIdle
  /\ q = <<>>
  /\ fg \in Windows
  /\ player = 1
  /\ total_tokens = 0
  /\ tok_done = 0
  /\ polling = FALSE
  /\ klog = [p \in Players |-> <<>>]
  /\ obs = [p \in Players |-> NoObs]
  /\ exit_by = [p \in Players |-> "none"]
  /\ stop_at = [p \in Players |-> NoStop]
  /\ down = [p \in Players |-> NoKeys]
  /\ polls = [p \in Players |-> 0]
  /\ ntoggle = [p \in Players |-> FALSE]

Next ==
  \/ \E p \in Players : Run(p)
  \/ \E p \in Players : Toggle(p)
  \/ \E p \in Players : Stop(p)
  \/ \E h \in Humans : ExpressivenessChanged(<<h>>)
  \/ ToggleAuto
  \/ \E w \in Windows : Focus(w)

Spec == Init /\ [][Next]_vars

\* The Player is a thread of its own: the scheduler lets it take its next
\* step, and every time.sleep returns.
\* Init with one of the two sheets whose keys all have few neighbours.
InitShort == Init /\ sheet[1] \in {3, 4}

FairSpec == InitShort /\ [][Next]_vars /\ \A p \in Players : WF_vars(Run(p))

\* ---------------------------------------------- the App as the controller
\* The *.txt files box_sheet lists (App._refresh_sheets), by sheet number.
ListedSheets == {3}

\* Players not yet constructed.
Fresh == {p \in Players : pc[p] = "new"}

NewPlayer == CHOOSE p \in Fresh : \A o \in Fresh : p <= o

\* App._apply_cfg: the value it returns
ApplyCfgOk == var_human # <<>> /\ ~(var_auto /\ var_win = "")

\* App._apply_cfg: CFG when it returns, from CFG c and the sheet selected
ApplyCfg(c, vs) ==
  IF var_human = <<>> THEN c
  ELSE [c EXCEPT !.human = var_human[1], !.sheet = vs,
                 !.target_title = IF var_win = "" THEN None ELSE var_win]

\* App._start_player
StartPlayer(sh) ==
  /\ Fresh # {}
  /\ total_tokens' = 0
  /\ tok_done' = 0
  /\ pc' = [pc EXCEPT ![NewPlayer] = "read"]
  /\ sheet' = [sheet EXCEPT ![NewPlayer] = sh]
  /\ player' = NewPlayer

\* App._fab_pressed (the button, or the hot-key through after(0, ...))
FabPressed ==
  /\ ~polling
  /\ IF player = 0
     THEN /\ cfg' = ApplyCfg(cfg, var_sheet)
          /\ IF ApplyCfgOk
             THEN StartPlayer(var_sheet)
             ELSE UNCHANGED <<pc, sheet, player, total_tokens, tok_done>>
          /\ UNCHANGED <<resume_evt, ntoggle>>
     ELSE /\ toggle(player)
          /\ UNCHANGED <<cfg, pc, sheet, player, total_tokens, tok_done>>
  /\ UNCHANGED <<stop_evt, idx, tok, i, last_shift, q, fg, var_sheet, var_human,
                 var_auto, var_win, polling, klog, obs, exit_by, stop_at, down, polls,
                 loc, calls, pureVars>>

\* App._on_sheet_change for the selection s of box_sheet; exists is
\* new_sheet.exists().  With a Player running: _stop_player, then
\* _start_player if _apply_cfg accepts.
OnSheetChange(s, exists) ==
  /\ ~polling
  /\ var_sheet' = s
  /\ IF ~exists
     THEN UNCHANGED <<cfg, pc, sheet, player, total_tokens, tok_done, stop_evt,
                      stop_at>>
     ELSE IF player = 0
     THEN /\ cfg' = [cfg EXCEPT !.sheet = s]
          /\ UNCHANGED <<pc, sheet, player, total_tokens, tok_done, stop_evt,
                         stop_at>>
     ELSE /\ stop(player)
          /\ cfg' = ApplyCfg([cfg EXCEPT !.sheet = s], s)
          /\ IF ApplyCfgOk
             THEN StartPlayer(s)
             ELSE /\ player' = 0
                  /\ UNCHANGED <<pc, sheet, total_tokens, tok_done>>
  /\ UNCHANGED <<resume_evt, idx, tok, i, last_shift, q, fg, var_human,
                 var_auto, var_win, polling, klog, obs, exit_by, down, polls,
                 ntoggle,
                 loc, calls, pureVars>>

\* App._poll: one get_nowait of the drain loop and the branch for its tag
PollStep ==
  /\ q # <<>>
  /\ q' = Tail(q)
  /\ polling' = TRUE
  /\ LET e == Head(q)
     IN  /\ total_tokens' = IF e.tag = "total" THEN e.val ELSE total_tokens
         /\ tok_done' = IF e.tag = "progress" THEN e.val ELSE tok_done
         /\ IF e.tag = "done" /\ player # 0
            THEN /\ stop(player)
                 /\ player' = 0
            ELSE UNCHANGED <<stop_evt, stop_at, player>>
  /\ UNCHANGED <<pc, sheet, resume_evt, idx, tok, i, last_shift, cfg, fg,
                 var_sheet, var_human, var_auto, var_win, klog, obs, exit_by,
                 down, polls, ntoggle,
                 loc, calls, pureVars>>

\* App._poll: get_nowait raises Empty; the next poll is scheduled
PollEnd ==
  /\ polling
  /\ q = <<>>
  /\ polling' = FALSE
  /\ UNCHANGED <<engineVars, q, cfg, fg, player, total_tokens, tok_done,
                 var_sheet, var_human, var_auto, var_win, histVars, pureVars>>

\* App.__init__: no Player, the first listed sheet selected by
\* _on_sheet_change, CFG as loaded from a settings file with auto_pause off,
\* no target window and a humanness of at most 75 % (no error injection).
InitApp ==
  /\ NoPlayers
  /\ PureIdle
  /\ q = <<>>
  /\ \E s \in ListedSheets, h \in {x \in Humans : x <= 75} :
       /\ cfg = [human |-> h, auto_pause |-> FALSE, target_title |-> None, sheet |-> s,
              bpm |-> DefaultBpm, subdiv |-> DefaultSubdiv]
       /\ var_sheet = s
       /\ var_human = <<h>>
  /\ var_auto = FALSE
  /\ var_win = ""
  /\ fg \in Windows
  /\ player = 0
  /\ total_tokens = 0
  /\ tok_done = 0
  /\ polling = FALSE

NextApp ==
  \/ \E p \in Players : Run(p)
  \/ FabPressed
  \/ \E s \in ListedSheets, exists \in BOOLEAN : OnSheetChange(s, exists)
  \/ PollStep
  \/ PollEnd

SpecApp == InitApp /\ [][NextApp]_vars

\* --------------------------------------------- a session with tempo edits
\* The texts the BPM and Subdivision entries can hold: <<n>> for a text that
\* int() / float() accept (the subdivision in tenths), <<>> for any other.
BpmTexts == {<<>>, <<-60>>, <<0>>, <<60>>, <<120>>}

SubTexts == {<<>>, <<0>>, <<40>>}

\* max(0.1, x), in tenths
AtLeastTenth(x) == IF x < 1 THEN 1 ELSE x

\* App._timing_changed, run by the trace of var_bpm or var_sub when the two
\* entries hold bt and st.  CFG.bpm is assigned before float() can raise;
\* the lines after the except only redraw the progress bar and the clock.
TimingChanged(bt, st) ==
  /\ ~polling
  /\ bt # <<>>
  /\ cfg' = IF st = <<>>
            THEN [cfg EXCEPT !.bpm = bt[1]]
            ELSE [cfg EXCEPT !.bpm = bt[1], !.subdiv = AtLeastTenth(st[1])]
  /\ UNCHANGED <<engineVars, q, fg, appVars, histVars, pureVars>>

\* The values of bpm and human a settings file can hold that save_cfg wrote
\* (bpm, which _timing_changed does not bound) or that was edited by hand
\* (human, which is loaded as it is).
LoadedBpms == {0, DefaultBpm}

LoadedHumans == {0, 100, 150}

\* One Player started on a sheet of ss, CFG loaded from a settings file
\* with human in hs and bpm in bs and accepted by App._apply_cfg; the
\* foreground window is not the game's.
Loaded(ss, hs, bs) ==
  /\ \E s \in ss, h \in hs, b \in bs, a \in BOOLEAN, t \in {None, "Roblox"} :
       /\ a => t # None
       /\ sheet = [p \in Players |-> IF p = 1 THEN s ELSE 1]
       /\ var_sheet = s
       /\ cfg = [human |-> h, auto_pause |-> a, target_title |-> t, sheet |-> s,
                 bpm |-> b, subdiv |-> DefaultSubdiv]
       /\ var_human = <<h>>
       /\ var_auto = a
       /\ var_win = t
  /\ pc = [p \in Players |-> IF p = 1 THEN "read" ELSE "new"]
  /\ resume_evt = [p \in Players |-> TRUE]
  /\ stop_evt = [p \in Players |-> FALSE]
  /\ idx = [p \in Players |-> 0]
  /\ tok = [p \in Players |-> NoTok]
  /\ i = [p \in Players |-> 1]
  /\ last_shift = [p \in Players |-> FALSE]
  /\ loc = [p \in Players |-> NoLoc]
  /\ q = <<>>
  /\ fg = "Notepad"
  /\ player = 1
  /\ total_tokens = 0
  /\ tok_done = 0
  /\ polling = FALSE
  /\ klog = [p \in Players |-> <<>>]
  /\ obs = [p \in Players |-> NoObs]
  /\ exit_by = [p \in Players |-> "none"]
  /\ stop_at = [p \in Players |-> NoStop]
  /\ down = [p \in Players |-> NoKeys]
  /\ polls = [p \in Players |-> 0]
  /\ ntoggle = [p \in Players |-> FALSE]
  /\ calls = [p \in Players |-> <<>>]
  /\ PureIdle

InitTimed == Loaded({1, 3}, {0, 100}, LoadedBpms)

NextTimed ==
  \/ \E p \in Players : Run(p)
  \/ \E bt \in BpmTexts, st \in SubTexts : TimingChanged(bt, st)

TimedSpec == InitTimed /\ [][NextTimed]_vars /\ \A p \in Players : WF_vars(Run(p))

\* ------------------------------------- a run at every humanness setting
\* The largest value of the Humanise slider (ttk.Scale from_=0, to=100).
MaxPercent == 100

\* Every percentage of the slider, and what a settings file can hold.
RunHumans == (0..MaxPercent) \cup LoadedHumans

\* The densities of line 239, in tenths.
DensityGrid == 0..10

InitRun == Loaded(Sheets, RunHumans, {DefaultBpm})

NextRun == \E p \in Players : Run(p)

RunSpec == InitRun /\ [][NextRun]_vars

\* ------------------------------------------------------ Player._tokenise
\* A text is a sequence of one-character strings.  The characters of the
\* bounded texts: a letter, the bracket delimiters, a blank, the comment
\* marker (which is also a key of SHIFT_MAP), a line break and a character
\* that is neither alphanumeric nor a key of SHIFT_MAP.
TextChars == {"a", "[", "]", " ", "#", "\n", "~"}

\* Longest text the tokeniser is called on.
MaxText == 4

Texts == UNION {[1..n -> TextChars] : n \in 0..MaxText}

\* str.isspace and str.isalnum on the characters of TextChars
IsSpace(c) == c \in {" ", "\n"}

IsAlnum(c) == c = "a"

\* The first position of t at or after k that holds c, Len(t) + 1 if none.
Find(t, c, k) ==
  IF \E m \in k..Len(t) : t[m] = c
  THEN CHOOSE m \in k..Len(t) : t[m] = c /\ \A n \in k..(m - 1) : t[n] # c
  ELSE Len(t) + 1

RECURSIVE SplitLines(_)
\* str.splitlines
SplitLines(t) ==
  IF t = <<>> THEN <<>>
  ELSE LET k == Find(t, "\n", 1)
       IN  <<SubSeq(t, 1, k - 1)>> \o SplitLines(SubSeq(t, k + 1, Len(t)))

SkipLineOnlyAtColumnZero(line) == line # <<>> /\ line[1] = "#"

\* line 197: line.lstrip().startswith("#")
SkipLine(line) ==
  \E k \in 1..Len(line) : line[k] = "#" /\ \A m \in 1..(k - 1) : IsSpace(line[m])

\* line 204: the characters a chord keeps
InChord(c) == ~IsSpace(c) /\ (IsAlnum(c) \/ c \in DOMAIN SHIFT_MAP)

RECURSIVE TokLine(_, _)
\* lines 199-210: the tokens of one line from position k on
TokLine(line, k) ==
  IF k > Len(line) THEN <<>>
  ELSE IF line[k] = "["
  THEN LET e     == Find(line, "]", k + 1)
           chord == SelectSeq(SubSeq(line, k + 1, e - 1), InChord)
       IN  (IF chord # <<>> THEN <<Chord(chord)>> ELSE <<>>) \o TokLine(line, e + 1)
  ELSE IF ~IsSpace(line[k])
  THEN <<Single(line[k])>> \o TokLine(line, k + 1)
  ELSE TokLine(line, k + 1)

RECURSIVE TokLines(_)
TokLines(ls) ==
  IF ls = <<>> THEN <<>>
  ELSE (IF SkipLine(Head(ls)) THEN <<>> ELSE TokLine(Head(ls), 1))
       \o TokLines(Tail(ls))

\* Player._tokenise, as the list run makes of it (line 229)
Tokenise(t) == TokLines(SplitLines(t))

\* line 229: toks = list(self._tokenise(raw))
TokeniseCall ==
  /\ ~out.called
  /\ out' = [called |-> TRUE, toks |-> Tokenise(raw)]
  /\ UNCHANGED <<engineVars, q, cfg, fg, appVars, histVars, raw, slot>>

\* No Player, the defaults of Config, and a sheet text.
InitTok ==
  /\ NoPlayers
  /\ q = <<>>
  /\ cfg = [human |-> 30, auto_pause |-> TRUE, target_title |-> None, sheet |-> 1,
            bpm |-> DefaultBpm, subdiv |-> DefaultSubdiv]
  /\ fg = "Notepad"
  /\ player = 0
  /\ total_tokens = 0
  /\ tok_done = 0
  /\ var_sheet = 1
  /\ var_human = <<30>>
  /\ var_auto = TRUE
  /\ var_win = ""
  /\ polling = FALSE
  /\ raw \in Texts
  /\ out = NotCalled
  /\ slot = NoSlot

NextTok == TokeniseCall

TokSpec == InitTok /\ [][NextTok]_vars

\* --------------------------------------- the sleeps of one Single token
\* CFG.human, CFG.bpm and CFG.hold (in percent) of the timed token, and the
\* random draws as multiples of their scale: the sine of line 257, the
\* gauss of line 258 in sigmas, the uniform of line 297 in h_jit.
SlotBpms == {60, DefaultBpm, 300}

SlotHolds == {0, 80, 100}

Signs == {-1, 0, 1}

\* sigma in microseconds; drift and hold_jit in 1/1000 (exact for Humans).
SigmaUs(par) == par.sigma \div 100

Permille(x) == x \div 100000

\* lines 256-257: sec, in microseconds, for the sine sn
Sec(spt, par, sn) == (spt * (1000 + sn * Permille(par.drift))) \div 1000

\* line 258: onset_off = random.gauss(0, sigma), for a draw of g sigmas
OnsetOff(par, g) == g * SigmaUs(par)

\* 0.06 s, the shortest hold
MinHold == 60000

\* lines 295-298: hold_len for the uniform draw u * h_jit, rounded down to a
\* microsecond
HoldLen(hold, sec, par, u) ==
  LET len == ((sec \div 100) * hold * (1000 + u * Permille(par.hold_jit))) \div 1000
  IN  IF len > MinHold THEN len ELSE MinHold

\* lines 268, 299, 301, 303: the arguments of the time.sleep calls of a
\* Single token, in call order
SingleSleeps(sec, onset_off, hold_len) ==
  (IF onset_off > 0 THEN <<onset_off>> ELSE <<>>)
  \o <<hold_len + Max0(onset_off)>>
  \o <<Max0(sec - hold_len - Max0(onset_off))>>
  \o (IF onset_off < 0 THEN <<-onset_off>> ELSE <<>>)

\* lines 256-303 for a Single token whose gate is open
PlaySingle ==
  /\ ~slot.done
  /\ \E dens \in Densities :
       LET par == Params(slot.human, dens)
           sec == Sec(slot.spt, par, slot.sin)
           hl  == HoldLen(slot.hold, sec, par, slot.uniform)
       IN  slot' = [slot EXCEPT !.done = TRUE, !.sec = sec,
                      !.sleeps = SingleSleeps(sec, OnsetOff(par, slot.gauss), hl)]
  /\ UNCHANGED <<engineVars, q, cfg, fg, appVars, histVars, raw, out>>

InitSlot ==
  /\ NoPlayers
  /\ q = <<>>
  /\ \E h \in Humans, b \in SlotBpms, ho \in SlotHolds,
        sn \in Signs, g \in Signs, u \in Signs :
       /\ cfg = [human |-> h, auto_pause |-> TRUE, target_title |-> None,
                 sheet |-> 1, bpm |-> b, subdiv |-> DefaultSubdiv]
       /\ var_human = <<h>>
       /\ slot = [NoSlot EXCEPT !.human = h, !.hold = ho, !.spt = SecPerTok(cfg),
                                 !.sin = sn, !.gauss = g, !.uniform = u]
  /\ fg = "Notepad"
  /\ player = 0
  /\ total_tokens = 0
  /\ tok_done = 0
  /\ var_sheet = 1
  /\ var_auto = TRUE
  /\ var_win = ""
  /\ polling = FALSE
  /\ raw = <<>>
  /\ out = NotCalled

NextSlot == PlaySingle

SlotSpec == InitSlot /\ [][NextSlot]_vars

\* ===================================================================
\* Properties
\* ===================================================================
\* The events Player p has put on the queue, in order (under Spec nothing
\* takes events off the queue).
Sent(p) == SelectSeq(q, LAMBDA e : e.src = p)

Tags(p, tag) == SelectSeq(Sent(p), LAMBDA e : e.tag = tag)

Started == {p \in Players : pc[p] # "new"}

\* C1: when the for loop of run is left because stop_evt was seen set (at
\* the top of a token or after the gate loop), the Player puts no done event.
C1_NoDoneAfterStopExit ==
  \A p \in Started :
    exit_by[p] \in {"stop_top", "stop_gate"} => Len(Tags(p, "done")) = 0

\* A log of key calls in which every press is matched: the presses first,
\* then one release per press, of the same keys in the reverse order.
Paired(log) ==
  LET n == Len(log)
  IN  /\ n % 2 = 0
      /\ \A j \in 1..(n \div 2) :
           /\ log[j].op = "press"
           /\ log[n + 1 - j].op = "release"
           /\ log[n + 1 - j].key = log[j].key

\* The positions of run at which no token is between its first press and
\* its last release.
BetweenTokens == {"for", "decide", "progress", "emit_done", "dead"}

\* The positions of run inside the processing of the token idx.
Processing == {"decide", "gate", "gate_focus", "gate_stop", "gate_sleep",
               "gate_exit", "press", "release", "progress"}

StopExits == {"stop_top", "stop_gate"}

PressedAfterStop(p) ==
  \E j \in 1..Len(klog[p]) : klog[p][j].op = "press" /\ klog[p][j].stopped

\* C2: whenever a token is over, and when run has returned (by completion
\* or by either stop check), every press call of the token has been followed
\* by a release call of the same key, the members of a chord in the reverse
\* of their press order, and for every key the run has made as many release
\* calls as press calls.
C2_PressReleasePaired ==
  \A p \in Started :
    pc[p] \in BetweenTokens => Paired(klog[p]) /\ down[p] = NoKeys

\* stop was called between the two presses of a chord, and run has returned
C2_Witness ==
  /\ pc[1] = "dead"
  /\ exit_by[1] \in StopExits
  /\ Len(klog[1]) = 4
  /\ ~klog[1][1].stopped
  /\ klog[1][2].stopped

\* C3: after stop was called, press calls are made only for the token that
\* was past the check of line 266 at the call, no token with a later index
\* is processed, and when the thread has exited no key is left down.
C3_StopLetsOnlyInflightFinish ==
  \A p \in Started :
    stop_evt[p] =>
      /\ PressedAfterStop(p) => stop_at[p].pc \in PastGate
      /\ pc[p] \in Processing => idx[p] = stop_at[p].idx
      /\ pc[p] = "dead" => down[p] = NoKeys

\* stop was called before the second press of a chord; the chord was
\* finished and the thread has exited at the top of the next token
C3_Witness ==
  /\ pc[1] = "dead"
  /\ exit_by[1] = "stop_top"
  /\ stop_at[1].pc = "press"
  /\ PressedAfterStop(1)
  /\ Paired(klog[1])

\* C4: a run over N tokens that ends by exhausting them, with no stop call,
\* has put exactly N progress events, with the indices 1..N in this order,
\* dropped tokens included, and done is the last event.
C4_ProgressPerToken ==
  \A p \in Started :
    (pc[p] = "dead" /\ exit_by[p] = "exhausted" /\ ~stop_evt[p]) =>
      LET n  == Len(Toks(p))
          pr == Tags(p, "progress")
      IN  /\ Len(pr) = n
          /\ \A j \in 1..n : pr[j].val = j
          /\ Sent(p)[Len(Sent(p))].tag = "done"

\* sheet 2 played to its end with its last token ("1") dropped: no key call
\* was logged for it
C4_Witness ==
  /\ pc[1] = "dead"
  /\ exit_by[1] = "exhausted"
  /\ ~stop_evt[1]
  /\ sheet[1] = 2
  /\ klog[1] = <<>>

\* C5: in a session that read its sheet, total is put exactly once and
\* first, the indices of the progress events never decrease and never
\* exceed the total, and nothing follows done.
C5_EventStream ==
  \A p \in Started :
    (pc[p] # "read" /\ exit_by[p] # "error") =>
      LET S  == Sent(p)
          pr == Tags(p, "progress")
      IN  /\ S[1].tag = "total"
          /\ Len(Tags(p, "total")) = 1
          /\ \A j \in 1..Len(pr) : pr[j].val <= S[1].val
          /\ \A j \in 1..Len(pr), k \in 1..Len(pr) : j < k => pr[j].val <= pr[k].val
          /\ \A j \in 1..Len(S) : S[j].tag = "done" => j = Len(S)

\* a whole sheet of four tokens was reported and done was put
C5_Witness ==
  /\ pc[1] = "dead"
  /\ Len(Tags(1, "progress")) = 4
  /\ Len(Tags(1, "done")) = 1

\* C6: when reading the sheet fails, the thread has terminated having put
\* one error event and nothing else, and having made no key call.
C6_ReadFailure ==
  \A p \in Started :
    exit_by[p] = "error" =>
      /\ pc[p] = "dead"
      /\ Sent(p) = <<Ev("error", 0, p)>>
      /\ idx[p] = 0
      /\ klog[p] = <<>>
      /\ down[p] = NoKeys

\* the read failed, and toggle and stop were called on the dead Player
C6_Witness ==
  /\ exit_by[1] = "error"
  /\ stop_evt[1]
  /\ ~resume_evt[1]

\* C7: at most one Player thread is alive at any time: when the App starts
\* a Player, every Player it started before has terminated.
C7_OneSessionActive ==
  Cardinality({p \in Players : pc[p] \notin {"new", "dead"}}) <= 1

GateLoop == {"gate", "gate_focus", "gate_stop", "gate_sleep"}

\* C8: a token has press calls only after its gate observed resume_evt set
\* and observed auto-pause off, or no target title, or the foreground title
\* equal to the target; inside the gate loop no key call has been made.
C8_PressOnlyPastOpenGate ==
  \A p \in Started :
    /\ (klog[p] # <<>> \/ pc[p] \in {"press", "release"}) =>
         obs[p].resume /\ obs[p].focus
    /\ pc[p] \in GateLoop \cup {"gate_exit"} => klog[p] = <<>>

\* a key is pressed for a token whose gate first slept, with auto-pause on
\* and the target window in the foreground
C8_Witness ==
  /\ klog[1] # <<>>
  /\ obs[1].waited
  /\ cfg.auto_pause
  /\ cfg.target_title = fg
  /\ resume_evt[1]

\* stop was called while run was in the gate loop
StoppedInGate(p) == stop_evt[p] /\ stop_at[p].pc \in GateLoop

C9_Safe ==
  \A p \in Started :
    /\ polls[p] <= 1
    /\ StoppedInGate(p) =>
         /\ klog[p] = <<>>
         /\ \A j \in 1..Len(Sent(p)) :
              ~(Sent(p)[j].tag = "progress" /\ Sent(p)[j].val = stop_at[p].idx)

\* C9: when stop is called while run is in the gate loop, the loop sleeps at
\* most once more, no key is pressed and no progress event is put for the
\* token held at the gate, and the thread terminates, whether or not the
\* gate ever opens.
C9_StopHonouredAtGate ==
  /\ []C9_Safe
  /\ \A p \in Players : StoppedInGate(p) ~> (pc[p] = "dead")

\* stop arrived during the sleep of a paused gate; the thread has exited
\* after one more poll with the gate still closed
C9_Witness ==
  /\ pc[1] = "dead"
  /\ exit_by[1] = "stop_gate"
  /\ stop_at[1].pc = "gate_sleep"
  /\ polls[1] = 1
  /\ ~resume_evt[1]

\* C10: resume_evt is set exactly after an even number of toggle calls; the
\* progress events count 1, 2, 3, ... with no index skipped or repeated, the
\* token being processed is the one after the last reported, the keys
\* pressed are those of that token, and a token that has passed the gate is
\* released whatever resume_evt is.
C10_ToggleNeverSkips ==
  \A p \in Started :
    LET pr == Tags(p, "progress")
    IN  /\ resume_evt[p] = ~ntoggle[p]
        /\ \A j \in 1..Len(pr) : pr[j].val = j
        /\ pc[p] = "for" => idx[p] = Len(pr)
        /\ pc[p] \in Processing \ {"decide"} =>
             /\ idx[p] = Len(pr) + 1
             /\ tok[p].list = Toks(p)[idx[p]].list
             /\ tok[p].list => tok[p] = Toks(p)[idx[p]]
             /\ \A j \in 1..Len(klog[p]) :
                  klog[p][j].op = "press" => klog[p][j].key = tok[p].keys[j]
        /\ pc[p] = "progress" => Paired(klog[p])

\* the second token waited at a paused gate, was resumed and pressed, was
\* paused again while down, and has been released
C10_Witness ==
  /\ pc[1] = "progress"
  /\ idx[1] = 2
  /\ obs[1].waited
  /\ ~cfg.auto_pause
  /\ klog[1] # <<>>
  /\ ~resume_evt[1]

\* C11: whenever run has computed the duration of a token, the
\* CFG.sec_per_tok() it read was defined (no ZeroDivisionError) and strictly
\* positive, whatever the settings file held and whatever the operator typed
\* into the tempo entries.
C11_SecPerTokPositive ==
  \A p \in Players :
    /\ exit_by[p] # "ZeroDivisionError"
    /\ loc[p].spt >= 0
    /\ pc[p] \in GateLoop \cup PastGate => loc[p].spt > 0

\* The step of run that calls _params and makes the three comparisons.
DecideStep(p) == pc[p] = "decide" /\ pc'[p] # "decide"

InUnit(x) == 0 <= x /\ x <= PScale

\* C12: on every token, the drop, mis-strike and shift-slip probabilities
\* that _params returns for the humanness in CFG lie in [0,1], at every
\* density in [0,1].
C12_ProbabilitiesInUnit ==
  [][\A p \in Players :
       DecideStep(p) =>
         \A d \in DensityGrid :
           LET par == Params(cfg.human, d)
           IN  InUnit(par.p_drop) /\ InUnit(par.p_slip) /\ InUnit(par.p_shift)]_vars

\* The positions of run at which the token of this iteration is decided.
Decided == GateLoop \cup {"gate_exit"} \cup PastGate

\* The token the sheet holds at the position run is at.
SheetTok(p) == Toks(p)[idx[p]]

\* The keys of the press calls of the current token, in call order.
PressedKeys(p) ==
  LET pr == SelectSeq(klog[p], LAMBDA c : c.op = "press")
  IN  [k \in 1..Len(pr) |-> pr[k].key]

\* No sleep call lies between two op calls of the call log.
NoSleepWithin(log, op) ==
  \A a \in 1..Len(log), b \in 1..Len(log) :
    a < b /\ log[a] = op /\ log[b] = op =>
      \A m \in a..b : log[m] # "sleep"

AllSevenZero(par) ==
  /\ par.sigma = 0 /\ par.span = 0 /\ par.drift = 0 /\ par.hold_jit = 0
  /\ par.p_drop = 0 /\ par.p_slip = 0 /\ par.p_shift = 0

C13_Played(p) ==
  loc[p].robot /\ pc[p] \in Decided =>
    /\ tok[p] = SheetTok(p)
    /\ PressedKeys(p) = SubSeq(SheetTok(p).keys, 1, Len(PressedKeys(p)))
    /\ pc[p] = "progress" /\ ~IsRest(tok[p]) =>
         PressedKeys(p) = SheetTok(p).keys
    /\ NoSleepWithin(calls[p], "press")
    /\ NoSleepWithin(calls[p], "release")

C13_Decided(p) ==
  DecideStep(p) /\ cfg.human = 0 =>
    /\ \A d \in DensityGrid : AllSevenZero(Params(cfg.human, d))
    /\ loc'[p].robot
    /\ pc'[p] = "gate"
    /\ tok'[p] = tok[p]

\* C13: at humanness 0 _params returns 0 for all seven parameters at every
\* density, the token is neither dropped nor substituted (the keys pressed
\* are the keys of the sheet's token, in order), and no sleep call lies
\* between the press calls of a chord or between its release calls.
C13_RobotMode ==
  /\ [](\A p \in Players : C13_Played(p))
  /\ [][\A p \in Players : C13_Decided(p)]_vars

\* A chord played in robot mode, after its last release.
C13_Witness ==
  \E p \in Players :
    /\ loc[p].robot /\ cfg.human = 0 /\ pc[p] = "progress"
    /\ tok[p].list
    /\ calls[p] = <<"press", "press", "sleep", "release", "release", "sleep">>

\* C14: at every humanness from 0 % to 75 % and every density the three
\* error probabilities are exactly 0, and the token of that iteration is
\* not dropped, not shift-slipped and not replaced by a neighbour.
C14_NoErrorsUpTo75 ==
  [][\A p \in Players :
       DecideStep(p) /\ cfg.human \in 0..75 =>
         /\ \A d \in DensityGrid :
              LET par == Params(cfg.human, d)
              IN  par.p_drop = 0 /\ par.p_slip = 0 /\ par.p_shift = 0
         /\ pc'[p] = "gate"
         /\ loc'[p].shifted = tok[p]
         /\ ~loc'[p].slipped
         /\ tok'[p] = tok[p]]_vars

\* A token decided at 75 %, where sigma is not 0, waiting at its gate.
C14_Witness ==
  \E p \in Players :
    /\ pc[p] = "gate" /\ cfg.human = 75 /\ ~loc[p].robot
    /\ tok[p] = SheetTok(p)

\* The first character of the line that is not white space is the marker.
FirstNonSpaceIsHash(line) ==
  \E k \in 1..Len(line) :
    /\ line[k] = "#"
    /\ \A m \in 1..(k - 1) : line[m] = " "

RECURSIVE JoinLines(_)
\* The lines ls as one text, a line break between two lines.
JoinLines(ls) ==
  IF ls = <<>> THEN <<>>
  ELSE IF Len(ls) = 1 THEN ls[1]
  ELSE ls[1] \o <<"\n">> \o JoinLines(Tail(ls))

\* The text t without its comment lines.
WithoutComments(t) ==
  JoinLines(SelectSeq(SplitLines(t), LAMBDA l : ~FirstNonSpaceIsHash(l)))

\* C15: the tokens of a text are the tokens of the text with every line
\* removed whose first non-space character is the comment marker.
C15_CommentsInvisible ==
  out.called => out.toks = Tokenise(WithoutComments(raw))

\* An indented comment line ahead of a line with a token.
C15_Witness ==
  /\ out.called
  /\ raw = <<" ", "#", "\n", "a">>
  /\ out.toks = <<Single("a")>>

\* The characters the spec lists as recognised.
Recognised(c) == IsAlnum(c) \/ c \in DOMAIN SHIFT_MAP \/ c \in {"|", "[", "]"}

\* C16: no token of the tokeniser holds a character outside the recognised
\* sets, outside brackets or inside a chord.
C16_UnknownIgnored ==
  out.called =>
    \A k \in 1..Len(out.toks) :
      \A j \in 1..Len(out.toks[k].keys) : Recognised(out.toks[k].keys[j])

\* The step of run whose lines 245-247 replaced tok.
ShiftSlipStep(p) == DecideStep(p) /\ loc'[p].shifted # tok[p]

C18_RestOnlyWaits ==
  \A p \in Players :
    pc[p] \in Decided /\ IsRest(SheetTok(p)) =>
      /\ IsRest(tok[p])
      /\ klog[p] = <<>>
      /\ pc[p] \notin {"press", "release"}
      /\ pc[p] = "progress" => calls[p] = <<"sleep">>

RECURSIVE SumSeq(_)
SumSeq(xs) == IF xs = <<>> THEN 0 ELSE Head(xs) + SumSeq(Tail(xs))

\* C19: the sleeps of a Single token (onset delay, hold, remainder and the
\* absorbed negative offset) add up to the token's duration sec, whatever
\* the onset offset and the hold length.
C19_SlotLengthKept ==
  slot.done => SumSeq(slot.sleeps) = slot.sec

\* C20: the step of run that decides a token computes its duration from
\* the CFG of that moment, spt = 60 / (bpm * subdiv) with the bpm and subdiv
\* of the latest edit, and no other step of run or of the App changes the
\* duration of the token.
C20_DurationFromLiveCfg ==
  [][\A p \in Players :
       /\ DecideStep(p) /\ pc'[p] = "gate" =>
            loc'[p].spt * (cfg.bpm * cfg.subdiv) = SecScale
       /\ ~DecideStep(p) => loc'[p].spt = loc[p].spt]_vars

\* The second token of a sheet waits at its gate with the duration of a
\* tempo only an edit can have set.
C20_Witness ==
  \E p \in Players :
    /\ pc[p] = "gate" /\ idx[p] = 2
    /\ cfg.bpm = 60 /\ cfg.subdiv = 1
    /\ loc[p].spt * 60 = SecScale

\* The step of run that drops the token (line 252) and the step that ends
\* a processed token (lines 305-306).
DropStep(p) == DecideStep(p) /\ pc'[p] = "for"

ProgressStep(p) == pc[p] = "progress" /\ pc'[p] = "for"

\* A key of t is a key of the shift map or an upper-case letter.
WantsShift(t) ==
  \E j \in 1..Len(t.keys) :
    t.keys[j] \in DOMAIN SHIFT_MAP \/ t.keys[j] \in DOMAIN UpperToLower

\* run is about to decide a token whose predecessor was dropped (a dropped
\* token never reaches line 256, so it has no duration).
AfterDrop(p) == pc[p] = "decide" /\ idx[p] > 1 /\ loc[p].spt = 0

AfterRest(p) == pc[p] = "decide" /\ idx[p] > 1 /\ IsRest(Toks(p)[idx[p] - 1])

\* C21: the sticky-shift flag is false after a dropped token, is after a
\* processed token true exactly when the token acted on needed Shift, and
\* changes at no other step; the token that follows a dropped token or a
\* Rest is never shift-slipped.
C21_StickyShiftFlag ==
  [][\A p \in Players :
       /\ DropStep(p) => ~last_shift'[p]
       /\ ProgressStep(p) => (last_shift'[p] <=> WantsShift(tok[p]))
       /\ ~DropStep(p) /\ ~ProgressStep(p) => last_shift'[p] = last_shift[p]
       /\ AfterDrop(p) \/ AfterRest(p) =>
            ~last_shift[p] /\ (DecideStep(p) => loc'[p].shifted = tok[p])]_vars

\* The chord [Pq] was dropped and the "1" after it is about to be decided
\* at a humanness where shift slips happen.
C21_Witness ==
  \E p \in Players :
    /\ AfterDrop(p) /\ ~last_shift[p]
    /\ cfg.human = 100
    /\ Toks(p)[1] = Chord(<<"P", "q">>) /\ tok[p] = Single("1")

\* The gate of Player p is open: the condition of the while of line 261 is
\* false.
GateOpen(p) == resume_evt[p] /\ ~FocusLost

\* C22: a Player that read its sheet, is never stopped and whose gate is
\* from some point on always open eventually leaves the for loop with the
\* tokens exhausted and puts done, whatever the operator types into the
\* tempo entries during the run.
C22_RunCompletes ==
  \A p \in Players :
    (/\ <>(pc[p] = "for")
     /\ []~stop_evt[p]
     /\ <>[]GateOpen(p))
    => <>(/\ exit_by[p] = "exhausted"
          /\ \E k \in 1..Len(q) : q[k] = Ev("done", 1, p))

\* The event _poll takes next was put by a Player other than the current
\* one, which the App has stopped and replaced.
StaleEvent == q # <<>> /\ player # 0 /\ Head(q).src # player

\* C23: an event put by an earlier Player never makes _poll stop the
\* current Player, clear the reference to it or set the done-token counter.
C23_StaleEventsIgnored ==
  [][StaleEvent /\ q' = Tail(q) =>
       /\ player' = player
       /\ stop_evt'[player] = stop_evt[player]
       /\ tok_done' = tok_done]_vars

\* ------------------------------------------------------- keyboard helpers
\* A call of the keyboard controller KB made for the character ch.
KB(op, key, ch) == [op |-> op, key |-> key, ch |-> ch]

\* press(ch): the calls of KB.press it makes, in order
press(ch) ==
  IF ch \in DOMAIN SHIFT_MAP
  THEN <<KB("press", "shift", ch), KB("press", SHIFT_MAP[ch], ch)>>
  ELSE IF IsUpper(ch)
  THEN <<KB("press", "shift", ch), KB("press", Lower(ch), ch)>>
  ELSE <<KB("press", ch, ch)>>

\* release(ch): the calls of KB.release it makes, in order
release(ch) ==
  IF ch \in DOMAIN SHIFT_MAP
  THEN <<KB("release", SHIFT_MAP[ch], ch), KB("release", "shift", ch)>>
  ELSE IF IsUpper(ch)
  THEN <<KB("release", Lower(ch), ch), KB("release", "shift", ch)>>
  ELSE <<KB("release", ch, ch)>>

RECURSIVE KBCalls(_)
\* The calls of KB made by the press and release calls of a key log.
KBCalls(log) ==
  IF log = <<>> THEN <<>>
  ELSE KBCalls(SubSeq(log, 1, Len(log) - 1)) \o
       (IF log[Len(log)].op = "press" THEN press(log[Len(log)].key)
        ELSE release(log[Len(log)].key))

\* Shift is down after the first n calls of kb: its last call for the
\* modifier was a press.
ShiftDown(kb, n) ==
  \E a \in 1..n :
    /\ kb[a].key = "shift" /\ kb[a].op = "press"
    /\ \A b \in (a + 1)..n : kb[b].key # "shift"

\* The key pressed by call a of kb is still down after the first n calls.
StillDown(kb, a, n) ==
  /\ a <= n /\ kb[a].op = "press" /\ kb[a].key # "shift"
  /\ \A b \in (a + 1)..n : ~(kb[b].op = "release" /\ kb[b].key = kb[a].key)

\* C24: within a token the engine presses no key of an unshifted character
\* while Shift is down, and releases Shift only when no key of a shifted
\* character is still down.
C24_ShiftPerMember ==
  \A p \in Players :
    LET kb == KBCalls(klog[p])
    IN  \A n \in 1..Len(kb) :
          /\ kb[n].op = "press" /\ kb[n].key # "shift" /\ ~NeedsShiftCh(kb[n].ch)
               => ~ShiftDown(kb, n - 1)
          /\ kb[n].op = "release" /\ kb[n].key = "shift"
               => \A a \in 1..n : StillDown(kb, a, n) => ~NeedsShiftCh(kb[a].ch)

\* This step puts a progress event of Player p on the queue.
PutsProgress(p) ==
  /\ Len(q') = Len(q) + 1
  /\ q'[Len(q')].tag = "progress"
  /\ q'[Len(q')].src = p

\* The current token of Player p left the gate loop of lines 261-265 with
\* both operands of its condition seen false.
WaitedForGate(p) == obs[p].resume /\ obs[p].focus

\* C25: while the gate of a Player is closed it puts a progress event only
\* for a token that had waited for the gate and passed it: no token, a
\* dropped one included, is counted before the gate.
C25_CountedAfterGate ==
  [][\A p \in Players : PutsProgress(p) /\ ~GateOpen(p) => WaitedForGate(p)]_vars

\* ------------------------------------------- the App with its poll timer
\* The play/pause button and the queue poller around the Player threads.
\* Tk runs _poll every 50 ms (after(50, self._poll)) and each Player is a
\* thread of its own, so both keep taking their steps.
NextPoll ==
  \/ \E p \in Players : Run(p)
  \/ FabPressed
  \/ PollStep
  \/ PollEnd

PollSpec ==
  /\ InitApp
  /\ [][NextPoll]_vars
  /\ \A p \in Players : WF_vars(Run(p))
  /\ WF_vars(PollStep)
  /\ WF_vars(PollEnd)

\* C26: once the thread of the current Player has terminated, the App
\* eventually clears (or replaces) its reference to that Player.
C26_DeadPlayerCleared ==
  \A p \in Players : (pc[p] = "dead" /\ player = p) ~> (player # p)

====
